---- MODULE Spec2Model ----
(***************************************************************************)
(* Model of the tool-dispatch layer and the Lark API client of the         *)
(* lark-mcp-telegram-server repository:                                    *)
(*   - the access-token cache of LarkClient (src/app.py) and of            *)
(*     LarkBitableClient (src/app/mcp_bridge_enhanced.py);                 *)
(*   - the three JSON-RPC dispatchers: mcp_invoke of src/mcp_bridge.py,    *)
(*     mcp_invoke of src/app/mcp_bridge.py and invoke_mcp_tool of          *)
(*     src/app/mcp_bridge_enhanced.py, with mcp_proxy of src/mcp_bridge.py.*)
(* Every coroutine is cut at its awaits on outbound HTTP calls, which are  *)
(* the only points where the event loop can switch tasks.                  *)
(***************************************************************************)
EXTENDS Integers, Sequences, FiniteSets, TLC

VARIABLES
    clientKind,  \* which client class holds the token cache
    app_id,      \* the client's app id ("" when unset)
    app_secret,  \* the client's app secret ("" when unset)
    token,       \* the cached access token ("None" when nothing is cached)
    authSent,    \* number of credential-exchange requests posted so far
    tcall,       \* direct getToken calls: call -> [pc, hit, resp, ret]
    disp,        \* which dispatcher module serves /invoke
    proxyOn,     \* MCP_PROXY_ENABLED and MCP_PROXY_URL are both set
    req,         \* inbound calls: slot -> [pc, endpoint, body, ...]
    out,         \* terminal outcome of each inbound call
    now,         \* time.time() of src/server_enhanced.py, in seconds
    rate_limit_storage, \* identifier -> recorded request times
    grants,      \* every time at which check_rate_limit returned True
    checked,     \* the last check_rate_limit call: [id, at, ok]
    API_KEY,     \* MCP_API_KEY of src/server_enhanced.py
    clientsUp,   \* the messaging clients were built at start-up
    peer,        \* the chat id the caller of the send tools addresses
    sendRes,     \* the last send call and its outcome
    batch        \* the batch call of src/app.py: [pc, op, n, sent, result]

vars == <<clientKind, app_id, app_secret, token, authSent, tcall,
          disp, proxyOn, req, out,
          now, rate_limit_storage, grants, checked,
          API_KEY, clientsUp, peer, sendRes, batch>>

tokenVars == <<clientKind, app_id, app_secret, token, authSent, tcall>>
dispVars  == <<disp, proxyOn, req, out>>
rateVars  == <<now, rate_limit_storage, grants, checked>>
sendVars  == <<API_KEY, clientsUp, peer, sendRes>>
restVars  == <<rateVars, sendVars, batch>>

(***************************************************************************)
(* Bounds of the model.                                                    *)
(***************************************************************************)
NCalls == 3      \* concurrent direct getToken calls
NReqs == 1       \* concurrent inbound dispatcher calls
NTasks == 2      \* concurrent tool calls sharing one client

Calls == 1..NCalls
Reqs == 1..NReqs
Tasks == 1..NTasks

(***************************************************************************)
(* Python values.                                                          *)
(***************************************************************************)
None == "None"

\* Python truthiness of a string-or-None value: None and "" are falsy.
Truthy(v) == v # None /\ v # ""

(***************************************************************************)
(* Token cache: LarkClient.get_access_token and                            *)
(* LarkBitableClient.get_tenant_access_token.                              *)
(***************************************************************************)
Tokens == {"t-1", "t-2"}

\* What the auth endpoint can answer to one credential exchange.  A code-0
\* answer carries a non-empty tenant_access_token.
AuthResponses ==
    [kind : {"http"}, status : {200}, code : {0}, tenant_access_token : Tokens]
      \cup [kind : {"http"}, status : {200}, code : {99991663},
            tenant_access_token : {None}]
      \cup [kind : {"http"}, status : {500}, code : {0, 99991663},
            tenant_access_token : {None}]
      \cup [kind : {"transport"}, status : {0}, code : {0},
            tenant_access_token : {None}]

NoResp == [kind |-> "none", status |-> 0, code |-> 0, tenant_access_token |-> None]

\* lark_client = LarkClient(...) if LARK_APP_ID and LARK_APP_SECRET else None;
\* enhanced_bitable_client is always constructed.
ClientBuilt(kind, id, secret) ==
    kind = "LarkBitableClient" \/ (Truthy(id) /\ Truthy(secret))

CredentialsPresent == Truthy(app_id) /\ Truthy(app_secret)

\* The synchronous head of getToken, up to its first await:
\*   "hit"      the cache is truthy, it is returned
\*   "no_creds" LarkBitableClient raises ValueError
\*   "post"     the credential exchange is posted
GetTokenEntry(kind, cache, id, secret) ==
    IF Truthy(cache) THEN "hit"
    ELSE IF kind = "LarkBitableClient" /\ ~(Truthy(id) /\ Truthy(secret))
         THEN "no_creds"
         ELSE "post"

\* Variant of AuthOk that looks at the HTTP status alone.
AuthOk_StatusOnly(resp) == resp.kind = "http" /\ resp.status = 200

\* The exchange succeeded: HTTP 200 and business code 0.
AuthOk(resp) == resp.kind = "http" /\ resp.status = 200 /\ resp.code = 0

\* Variant of CacheAfter that forgets the cached token when an exchange fails.
CacheAfter_ClearOnFailure(cache, resp) ==
    IF AuthOk(resp) THEN resp.tenant_access_token ELSE None

\* Variant of CacheAfter that never stores the token.
CacheAfter_NoStore(cache, resp) == cache

\* The cache after the response of an exchange has been handled.
CacheAfter(cache, resp) ==
    IF AuthOk(resp) THEN resp.tenant_access_token ELSE cache

IdleCall == [pc |-> "idle", hit |-> FALSE, resp |-> NoResp, ret |-> None]

\* A caller asks the client for a token (test_lark_auth, send_message, ...).
TokenCallStart(c) ==
    /\ tcall[c].pc = "idle"
    /\ IF ~ClientBuilt(clientKind, app_id, app_secret)
       THEN \* if not lark_client: raise HTTPException(503)
            /\ tcall' = [tcall EXCEPT ![c].pc = "unavailable"]
            /\ UNCHANGED authSent
       ELSE LET e == GetTokenEntry(clientKind, token, app_id, app_secret) IN
            CASE e = "hit" ->
                   /\ tcall' = [tcall EXCEPT ![c].pc = "returned",
                                             ![c].hit = TRUE,
                                             ![c].ret = token]
                   /\ UNCHANGED authSent
              [] e = "no_creds" ->
                   /\ tcall' = [tcall EXCEPT ![c].pc = "raised"]
                   /\ UNCHANGED authSent
              [] e = "post" ->
                   /\ tcall' = [tcall EXCEPT ![c].pc = "awaiting"]
                   /\ authSent' = authSent + 1
    /\ UNCHANGED <<clientKind, app_id, app_secret, token>>
    /\ UNCHANGED dispVars
    /\ UNCHANGED restVars

\* The auth endpoint answers the exchange of call c.
TokenCallRespond(c) ==
    /\ tcall[c].pc = "awaiting"
    /\ \E resp \in AuthResponses :
         /\ token' = CacheAfter(token, resp)
         /\ tcall' = [tcall EXCEPT
                        ![c].pc = IF AuthOk(resp) THEN "returned" ELSE "raised",
                        ![c].resp = resp,
                        ![c].ret = IF AuthOk(resp) THEN token' ELSE None]
    /\ UNCHANGED <<clientKind, app_id, app_secret, authSent>>
    /\ UNCHANGED dispVars
    /\ UNCHANGED restVars

(***************************************************************************)
(* Tool registries.  A path template is a sequence of text pieces; a       *)
(* placeholder {k} is a piece of its own.                                  *)
(***************************************************************************)
P_apps == <<"/api/v1/bitable/apps/", "{app_token}", "/tables">>
P_records == P_apps \o <<"/", "{table_id}", "/records">>
P_record == P_records \o <<"/", "{record_id}">>
P_records_fields == P_apps \o <<"/", "{table_id}", "/fields">>
P_session == <<"/api/v1/hypetask/session/", "{session_token}">>
P_history == <<"/api/v1/hypetask/conversation/history/", "{session_token}">>

Tool(verb, path) == [http_method |-> verb, path |-> path]

\* Legacy dotted names shared by both proxying bridges.
LEGACY_TOOL_MAP ==
    "bitable.v1.appTableRecord.search" :> Tool("GET", P_records)
 @@ "bitable.v1.appTableRecord.create" :> Tool("POST", P_records \o <<"/create">>)
 @@ "bitable.v1.appTableRecord.update" :> Tool("PUT", P_record)
 @@ "bitable.v1.appTableRecord.delete" :> Tool("DELETE", P_record)
 @@ "bitable.v1.appTableRecord.batchCreate" :> Tool("POST", P_records \o <<"/batch/create">>)
 @@ "bitable.v1.appTableRecord.batchUpdate" :> Tool("PATCH", P_records \o <<"/batch/update">>)
 @@ "bitable.v1.appTableRecord.batchDelete" :> Tool("DELETE", P_records \o <<"/batch/delete">>)

\* TOOL_MAP of src/mcp_bridge.py.
TOOL_MAP ==
    "send_lark_message" :> Tool("POST", <<"/api/v1/lark/send">>)
 @@ "create_bitable_app" :> Tool("POST", <<"/api/v1/bitable/apps/create">>)
 @@ "list_bitable_tables" :> Tool("GET", P_apps)
 @@ "list_departments" :> Tool("GET", <<"/api/v1/contacts/departments">>)
 @@ "list_chats" :> Tool("GET", <<"/api/v1/lark/chats">>)
 @@ "create_hypetask_session" :> Tool("POST", <<"/api/v1/hypetask/session/create">>)
 @@ "get_hypetask_session" :> Tool("GET", P_session)
 @@ "log_conversation" :> Tool("POST", <<"/api/v1/hypetask/conversation/log">>)
 @@ "get_conversation_history" :> Tool("GET", P_history)
 @@ "search_bitable_records" :> Tool("GET", P_records)
 @@ "create_bitable_record" :> Tool("POST", P_records \o <<"/create">>)
 @@ "update_bitable_record" :> Tool("PUT", P_record)
 @@ "delete_bitable_record" :> Tool("DELETE", P_record)
 @@ "batch_create_records" :> Tool("POST", P_records \o <<"/batch/create">>)
 @@ "batch_update_records" :> Tool("PATCH", P_records \o <<"/batch/update">>)
 @@ "batch_delete_records" :> Tool("DELETE", P_records \o <<"/batch/delete">>)
 @@ "list_bitable_fields" :> Tool("GET", P_records_fields)
 @@ LEGACY_TOOL_MAP

\* TOOL_MAP of src/app/mcp_bridge.py.
APP_TOOL_MAP ==
    "im.v1.message.create" :> Tool("POST", <<"/api/v1/lark/send">>)
 @@ "lark_tenant_im_v1_message_create" :> Tool("POST", <<"/api/v1/lark/send">>)
 @@ "send_lark_message" :> Tool("POST", <<"/api/v1/lark/send">>)
 @@ LEGACY_TOOL_MAP

\* The keys of ENHANCED_TOOL_MAP of src/app/mcp_bridge_enhanced.py, in the
\* order of the dict literal.
ENHANCED_TOOL_NAMES ==
    <<"bitable_list_tables", "bitable_get_table_schema", "bitable_list_fields",
      "bitable_list_records", "bitable_get_record", "bitable_create_record",
      "bitable_update_record", "bitable_delete_record",
      "bitable_batch_create_records", "bitable_search_records",
      "send_lark_message", "create_bitable_app">>

\* ENHANCED_TOOL_MAP: name -> the "required" list of its parameter schema.
ENHANCED_TOOL_MAP ==
    "bitable_list_tables" :> {"app_token"}
 @@ "bitable_get_table_schema" :> {"app_token", "table_id"}
 @@ "bitable_list_fields" :> {"app_token", "table_id"}
 @@ "bitable_list_records" :> {"app_token", "table_id"}
 @@ "bitable_get_record" :> {"app_token", "table_id", "record_id"}
 @@ "bitable_create_record" :> {"app_token", "table_id", "fields"}
 @@ "bitable_update_record" :> {"app_token", "table_id", "record_id", "fields"}
 @@ "bitable_delete_record" :> {"app_token", "table_id", "record_id"}
 @@ "bitable_batch_create_records" :> {"app_token", "table_id", "records"}
 @@ "bitable_search_records" :> {"app_token", "table_id", "filter"}
 @@ "send_lark_message" :> {"chat_id", "message"}
 @@ "create_bitable_app" :> {"name"}

\* The names of the descriptors that mcp_tools_list of src/app.py returns at
\* GET /mcp/tools, in order.
MCP_TOOLS ==
    <<"send_lark_message", "create_bitable_app", "list_bitable_tables",
      "list_departments", "list_chats", "create_hypetask_session",
      "get_hypetask_session", "log_conversation", "get_conversation_history">>

\* The registry that tools/call of a dispatcher looks names up in.
RegisteredNames(d) ==
    CASE d = "bridge" -> DOMAIN TOOL_MAP
      [] d = "app_bridge" -> DOMAIN APP_TOOL_MAP
      [] d = "enhanced" -> DOMAIN ENHANCED_TOOL_MAP

(***************************************************************************)
(* Inbound bodies, argument maps, upstream answers.                        *)
(***************************************************************************)
\* An argument map is the sequence of its (key, value) pairs in the order
\* the JSON body gives them, which is the order args.items() iterates in.
\* The value "" stands for any falsy value.
ArgMaps ==
    { <<>>,
      << <<"app_token", "T1">> >>,
      << <<"app_token", "T1">>, <<"table_id", "TB1">>,
         <<"record_id", "rec1">>, <<"fields", "F">> >>,
      << <<"record_id", "rec1">>, <<"table_id", "TB1">>,
         <<"app_token", "T1">> >>,
      \* a value that reads as a placeholder of the template
      << <<"app_token", "{table_id}">>, <<"table_id", "TB1">>,
         <<"record_id", "rec1">> >> }

RECURSIVE Get(_, _)
\* args.get(k): the value of key k, None when absent.
Get(args, k) ==
    IF args = <<>> THEN None
    ELSE IF Head(args)[1] = k THEN Head(args)[2] ELSE Get(Tail(args), k)

\* The tool names inbound calls carry: absent (None), empty, unregistered
\* everywhere, and names registered in one or more of the three registries.
ReqNames ==
    {None, "", "no_such_tool", "send_lark_message", "list_bitable_tables",
     "bitable.v1.appTableRecord.update", "delete_bitable_record",
     "bitable_get_table_schema", "bitable_create_record"}

Methods == {"tools/list", "tools/call", "resources/list", None}

BodyOf(raw, jsonrpc, id, method, params, name, arguments) ==
    [raw |-> raw, jsonrpc |-> jsonrpc, id |-> id, method |-> method,
     params |-> params, name |-> name, arguments |-> arguments]

\* Bytes that are not JSON, and a JSON document that is not an object.
MalformedBody == BodyOf("malformed", None, None, None, "absent", None, <<>>)
ArrayBody == BodyOf("array", None, None, None, "absent", None, <<>>)

\* The bodies the caller of slot r may send; its id, when present, is r.
Bodies(r) ==
    {MalformedBody, ArrayBody}
      \cup { BodyOf("object", v, i, m, "absent", None, <<>>) :
               v \in {"2.0", None}, i \in {None, ToString(r)}, m \in Methods }
      \cup { BodyOf("object", v, i, "tools/call", "null", None, <<>>) :
               v \in {"2.0", None}, i \in {None, ToString(r)} }
      \cup { BodyOf("object", v, i, "tools/call", "object", n, a) :
               v \in {"2.0", None}, i \in {None, ToString(r)},
               n \in ReqNames, a \in ArgMaps }

\* mcp_proxy forwards the body unread: what matters is whether it parses.
ProxyBodies(r) ==
    {MalformedBody, ArrayBody}
      \cup { BodyOf("object", "2.0", i, "tools/list", "absent", None, <<>>) :
               i \in {None, ToString(r)} }

\* What an upstream HTTP call can end in.
UpResponses ==
    [kind : {"json"}, status : {200, 500}, code : {0, 1254001}]
      \cup [kind : {"nonjson"}, status : {200}, code : {0}]
      \cup [kind : {"transport"}, status : {0}, code : {0}]

NoUp == [kind |-> "none", status |-> 0, code |-> 0]

(***************************************************************************)
(* Envelopes.                                                              *)
(***************************************************************************)
Payload(tag, tools, data, isError) ==
    [tag |-> tag, tools |-> tools, data |-> data, isError |-> isError]

NoPayload == Payload("none", <<>>, NoUp, FALSE)

\* ok(id_, result)
ok(id, result) ==
    [kind |-> "result", id |-> id, code |-> 0, http |-> 200, result |-> result]

\* err(id_, code, msg)
err(id, code) ==
    [kind |-> "error", id |-> id, code |-> code, http |-> 200, result |-> NoPayload]

\* JSONResponse(status_code=..., content={"jsonrpc", "error": {code}, "id"})
JSONResponse(status, id, code) ==
    [kind |-> "error", id |-> id, code |-> code, http |-> status,
     result |-> NoPayload]

\* An exception leaves the handler: the host answers HTTP 500 with no envelope.
Unhandled ==
    [kind |-> "exception", id |-> None, code |-> 0, http |-> 500,
     result |-> NoPayload]

\* No answer yet.
NoEnvelope ==
    [kind |-> "none", id |-> None, code |-> 0, http |-> 0, result |-> NoPayload]

\* A JSON answer relayed verbatim that holds neither result nor error.
Neither ==
    [kind |-> "neither", id |-> None, code |-> 0, http |-> 200,
     result |-> NoPayload]

(***************************************************************************)
(* Path substitution of mcp_invoke.                                        *)
(***************************************************************************)
\* f"{{{k}}}"
Placeholder(k) ==
    CASE k = "app_token" -> "{app_token}"
      [] k = "table_id" -> "{table_id}"
      [] k = "record_id" -> "{record_id}"
      [] k = "session_token" -> "{session_token}"
      [] k = "fields" -> "{fields}"
      [] OTHER -> "{other}"

\* path.replace(f"{{{k}}}", str(v))
Replace(path, k, v) ==
    [i \in DOMAIN path |-> IF path[i] = Placeholder(k) THEN v ELSE path[i]]

RECURSIVE Substitute(_, _)
\* for k, v in args.items(): path = path.replace(...)
Substitute(path, args) ==
    IF args = <<>> THEN path
    ELSE Substitute(Replace(path, Head(args)[1], Head(args)[2]), Tail(args))

\* The argument names the registries' templates use.
Keys == {"app_token", "table_id", "record_id", "session_token"}

IsPlaceholder(piece) == \E k \in Keys : piece = Placeholder(k)

KeyOf(piece) == CHOOSE k \in Keys : piece = Placeholder(k)

\* The keys of an argument map.
ArgKeys(args) == {args[i][1] : i \in DOMAIN args}

Outbound(to, verb, url, carrier, payload) ==
    [to |-> to, verb |-> verb, url |-> url, carrier |-> carrier,
     payload |-> payload]

\* What a task keeps of an answer: how it ended, its HTTP status, its
\* business code.
Seen(resp) == [kind |-> resp.kind, status |-> resp.status, code |-> resp.code]

IdleReq ==
    [pc |-> "idle", endpoint |-> "invoke", body |-> MalformedBody,
     sent |-> <<>>, step |-> "none", got |-> NoUp, found |-> None,
     first |-> NoUp]

(***************************************************************************)
(* The handlers, as functions from what a task knows to where it stands    *)
(* at its next await: [pc, out, sent, step].                               *)
(***************************************************************************)
At(pc, o, sent, step) == [pc |-> pc, out |-> o, sent |-> sent, step |-> step]

Done(o) == At("done", o, <<>>, "none")

\* Where the verb of mcp_invoke puts the argument map.
Carrier(http_method) ==
    IF http_method \in {"POST", "PUT", "PATCH"} THEN "json" ELSE "params"

\* Variant of ToolNotFound answering with the invalid-params code.
ToolNotFound_InvalidParams(mid) == err(mid, -32602)

\* return err(mid, -32601, f"Tool not found: {name}")
ToolNotFound(mid) == err(mid, -32601)

\* Variant of MethodNotFound answering with the invalid-request code.
MethodNotFound_InvalidRequest(mid) == err(mid, -32600)

\* return err(mid, -32601, f"Method not found: {method}")
MethodNotFound(mid) == err(mid, -32601)

\* mcp_invoke of src/mcp_bridge.py and of src/app/mcp_bridge.py, from the
\* read of the body to the first outbound call.
mcp_invoke(map, body) ==
    IF body.raw # "object"
    THEN Done(Unhandled)          \* req.json() raises, or body.get does
    ELSE LET mid == body.id
             name == body.name    \* (body.get("params") or {}).get("name")
             args == body.arguments
         IN
         CASE body.method = "tools/list" ->
                At("awaiting_list", NoEnvelope,
                   <<Outbound("internal", "GET", <<"/mcp/tools">>, "none", <<>>)>>,
                   "none")
           [] body.method = "tools/call" ->
                IF name \notin DOMAIN map
                THEN Done(ToolNotFound(mid))
                ELSE LET t == map[name]
                         url == Substitute(t.path, args)
                     IN IF t.http_method = "DELETE"
                        THEN \* c.delete(url, json=args): httpx's delete()
                             \* takes no json argument, a TypeError
                             Done(Unhandled)
                        ELSE At("awaiting_call", NoEnvelope,
                                <<Outbound("internal", t.http_method, url,
                                           Carrier(t.http_method), args)>>,
                                "none")
           [] OTHER -> Done(MethodNotFound(mid))

\* tools/list of mcp_invoke once GET /mcp/tools has answered.
mcp_invoke_list(body, resp) ==
    CASE resp.kind = "transport" -> Unhandled
      [] resp.kind = "nonjson" -> err(body.id, -32000)
      [] resp.kind = "json" ->
           \* r.json().get("tools", []): mcp_tools_list answers with its
           \* tools; an error document has no "tools" key
           ok(body.id,
              Payload("tools", IF resp.status = 200 THEN MCP_TOOLS ELSE <<>>,
                      NoUp, FALSE))

\* tools/call of mcp_invoke once the REST endpoint has answered.
mcp_invoke_call(body, resp) ==
    CASE resp.kind = "transport" -> Unhandled
      [] resp.kind = "nonjson" -> ok(body.id, Payload("text", <<>>, resp, FALSE))
      [] resp.kind = "json" -> ok(body.id, Payload("data", <<>>, resp, FALSE))

\* mcp_proxy, up to the forwarding POST.
mcp_proxy(enabled, body) ==
    IF ~enabled THEN Done(err("proxy_error", -32000))
    ELSE IF body.raw = "malformed" THEN Done(err("proxy_error", -32700))
    ELSE At("awaiting_proxy", NoEnvelope,
            <<Outbound("proxy", "POST", <<"MCP_PROXY_URL">>, "json", <<>>)>>,
            "none")

\* What the proxied server may answer with a JSON document: an envelope for
\* the forwarded call, or a document that is no envelope.
ProxyAnswers(body) ==
    { ok(body.id, Payload("data", <<>>, NoUp, FALSE)),
      err(body.id, -32601),
      Neither }

\* mcp_proxy once the proxied server has answered.
mcp_proxy_respond(body, resp, answer) ==
    CASE resp.kind = "transport" -> err("proxy_error", -32003)
      [] resp.kind = "nonjson" -> err("proxy_error", -32700)
      [] resp.kind = "json" -> answer

\* tool_name.startswith("bitable_")
StartsWithBitable(name) ==
    \E k \in 1..10 : ENHANCED_TOOL_NAMES[k] = name

\* The parameters execute_bitable_operation insists on being truthy.
CheckedParams(tool) ==
    CASE tool = "bitable_list_tables" -> {"app_token"}
      [] tool \in {"bitable_get_table_schema", "bitable_list_fields",
                   "bitable_list_records"} -> {"app_token", "table_id"}
      [] tool \in {"bitable_get_record", "bitable_delete_record"} ->
           {"app_token", "table_id", "record_id"}
      [] tool = "bitable_create_record" -> {"app_token", "table_id", "fields"}
      [] tool = "bitable_update_record" ->
           {"app_token", "table_id", "record_id", "fields"}
      [] tool = "bitable_batch_create_records" ->
           {"app_token", "table_id", "records"}
      [] tool = "bitable_search_records" -> {"app_token", "table_id", "filter"}

\* The request a LarkBitableClient method hands to _make_request.
ClientRequest(tool, args, step) ==
    LET app == <<"/bitable/v1/apps/", Get(args, "app_token")>>
        tbl == app \o <<"/tables/", Get(args, "table_id")>>
        rec == tbl \o <<"/records/", Get(args, "record_id")>>
        Rq(verb, url) == Outbound("lark", verb, url, "none", <<>>)
    IN CASE tool = "bitable_list_tables" -> Rq("GET", app \o <<"/tables">>)
         [] tool = "bitable_get_table_schema" ->
              IF step = "table" THEN Rq("GET", tbl)
              ELSE Rq("GET", tbl \o <<"/fields">>)
         [] tool = "bitable_list_fields" -> Rq("GET", tbl \o <<"/fields">>)
         [] tool = "bitable_list_records" -> Rq("GET", tbl \o <<"/records">>)
         [] tool = "bitable_get_record" -> Rq("GET", rec)
         [] tool = "bitable_create_record" -> Rq("POST", tbl \o <<"/records">>)
         [] tool = "bitable_update_record" -> Rq("PUT", rec)
         [] tool = "bitable_delete_record" -> Rq("DELETE", rec)
         [] tool = "bitable_batch_create_records" ->
              Rq("POST", tbl \o <<"/records/batch_create">>)
         [] tool = "bitable_search_records" ->
              Rq("POST", tbl \o <<"/records/search">>)

AuthRequest ==
    Outbound("auth", "POST", <<"/auth/v3/tenant_access_token/internal">>,
             "json", <<>>)

\* The envelope of a bitable tool call: json.dumps(result), "error" in result.
ToolResult(id, data, isError) == ok(id, Payload("content", <<>>, data, isError))

\* _make_request up to its first await: the token, then the request.
make_request(body, step, cache, id, secret) ==
    LET e == GetTokenEntry("LarkBitableClient", cache, id, secret) IN
    CASE e = "hit" ->
           At("awaiting_api", NoEnvelope,
              <<ClientRequest(body.name, body.arguments, step)>>, step)
      [] e = "no_creds" -> Done(ToolResult(body.id, NoUp, TRUE))
      [] e = "post" -> At("awaiting_auth", NoEnvelope, <<AuthRequest>>, step)

\* execute_bitable_operation up to its first await.
execute_bitable_operation(body, cache, id, secret) ==
    IF \E k \in CheckedParams(body.name) : ~Truthy(Get(body.arguments, k))
    THEN Done(ToolResult(body.id, NoUp, TRUE))     \* ValueError, caught
    ELSE make_request(body,
                      IF body.name = "bitable_get_table_schema"
                      THEN "table" ELSE "only",
                      cache, id, secret)

\* invoke_mcp_tool of src/app/mcp_bridge_enhanced.py up to its first await.
invoke_mcp_tool(body, cache, id, secret) ==
    CASE body.raw = "malformed" -> Done(JSONResponse(400, None, -32700))
      [] body.raw = "array" ->
           \* body.get raises AttributeError, and raises again inside the
           \* except clause that builds the -32603 answer
           Done(Unhandled)
      [] OTHER ->
           IF body.jsonrpc # "2.0"
           THEN Done(JSONResponse(400, body.id, -32600))
           ELSE
           CASE body.method = "tools/list" ->
                  Done(ok(body.id,
                          Payload("tools", ENHANCED_TOOL_NAMES, NoUp, FALSE)))
             [] body.method = "tools/call" ->
                  IF body.params = "null"
                  THEN \* params.get on None: AttributeError, caught
                       Done(JSONResponse(500, body.id, -32603))
                  ELSE IF ~Truthy(body.name)
                  THEN Done(JSONResponse(400, body.id, -32602))
                  ELSE IF body.name \notin DOMAIN ENHANCED_TOOL_MAP
                  THEN Done(JSONResponse(404, body.id, -32601))
                  ELSE IF StartsWithBitable(body.name)
                  THEN execute_bitable_operation(body, cache, id, secret)
                  ELSE Done(ok(body.id, Payload("legacy", <<>>, NoUp, FALSE)))
             [] OTHER -> Done(JSONResponse(400, body.id, -32601))

\* _make_request once the credential exchange has answered.
make_request_auth(body, step, resp) ==
    IF AuthOk(resp)
    THEN At("awaiting_api", NoEnvelope,
            <<ClientRequest(body.name, body.arguments, step)>>, step)
    ELSE Done(ToolResult(body.id, NoUp, TRUE))

\* What get_table_schema returns once both requests have answered:
\* {"code": 0, "msg": "success", "data": {"table": ..., "fields": ...}}.
SchemaResult(resp) == [kind |-> "json", status |-> resp.status, code |-> 0]

\* The client method once the Lark API has answered its request.
make_request_api(body, step, resp, cache, id, secret) ==
    IF resp.kind # "json" \/ resp.status \notin {200, 201}
    THEN Done(ToolResult(body.id, resp, TRUE))   \* raised, caught
    ELSE IF step = "table"
    THEN make_request(body, "fields", cache, id, secret)
    ELSE IF step = "fields"
    THEN Done(ToolResult(body.id, SchemaResult(resp), FALSE))
    ELSE Done(ToolResult(body.id, resp, FALSE))

(***************************************************************************)
(* Actions of the dispatcher.                                              *)
(***************************************************************************)
Auths(sent) == Len(SelectSeq(sent, LAMBDA m : m.to = "auth"))

\* Task r, having received the answer got (NoUp on arrival), moves to where
\* res says; found keeps the token cache as the task met it on arrival,
\* first the answer to the table-metadata request of get_table_schema.
Move(r, ep, body, res, got) ==
    /\ req' = [req EXCEPT ![r] = [pc |-> res.pc, endpoint |-> ep,
                                  body |-> body,
                                  sent |-> req[r].sent \o res.sent,
                                  step |-> res.step,
                                  got |-> got,
                                  found |-> IF req[r].pc = "idle"
                                            THEN token
                                            ELSE req[r].found,
                                  first |-> IF req[r].pc = "awaiting_api"
                                                 /\ req[r].step = "table"
                                            THEN got
                                            ELSE req[r].first]]
    /\ out' = [out EXCEPT ![r] = res.out]
    /\ authSent' = authSent + Auths(res.sent)

\* The call of task r arrives at POST /invoke with the given body and runs
\* to its first outbound call.
Arrive(r, body) ==
    /\ req[r].pc = "idle"
    /\ Move(r, "invoke", body,
            CASE disp = "bridge" -> mcp_invoke(TOOL_MAP, body)
              [] disp = "app_bridge" -> mcp_invoke(APP_TOOL_MAP, body)
              [] disp = "enhanced" ->
                   invoke_mcp_tool(body, token, app_id, app_secret),
            NoUp)
    /\ UNCHANGED <<clientKind, app_id, app_secret, token, tcall, disp, proxyOn>>
    /\ UNCHANGED restVars

\* A call arrives at POST /invoke.
Invoke(r) == \E body \in Bodies(r) : Arrive(r, body)

\* Well-formed tools/call bodies of the tools that use the shared client:
\* one that makes two requests and one that makes one, with and without
\* their arguments.
SharedBodies(r) ==
    { BodyOf("object", "2.0", ToString(r), "tools/call", "object", n, a) :
        n \in {"bitable_get_table_schema", "bitable_create_record"},
        a \in { <<>>,
                << <<"app_token", "T1">>, <<"table_id", "TB1">>,
                   <<"record_id", "rec1">>, <<"fields", "F">> >> } }

\* A tool call that uses the shared client arrives at POST /invoke.
InvokeShared(r) == \E body \in SharedBodies(r) : Arrive(r, body)

\* A call arrives at POST /invoke/proxy of src/mcp_bridge.py.
InvokeProxy(r) ==
    /\ disp = "bridge"
    /\ req[r].pc = "idle"
    /\ \E body \in ProxyBodies(r) :
         Move(r, "proxy", body, mcp_proxy(proxyOn, body), NoUp)
    /\ UNCHANGED <<clientKind, app_id, app_secret, token, tcall, disp, proxyOn>>
    /\ UNCHANGED restVars

\* GET /mcp/tools answers a tools/list of mcp_invoke.
ListRespond(r) ==
    /\ req[r].pc = "awaiting_list"
    /\ \E resp \in UpResponses :
         Move(r, req[r].endpoint, req[r].body,
              Done(mcp_invoke_list(req[r].body, resp)), Seen(resp))
    /\ UNCHANGED <<clientKind, app_id, app_secret, token, tcall, disp, proxyOn>>
    /\ UNCHANGED restVars

\* The REST endpoint answers a tools/call of mcp_invoke.
CallRespond(r) ==
    /\ req[r].pc = "awaiting_call"
    /\ \E resp \in UpResponses :
         Move(r, req[r].endpoint, req[r].body,
              Done(mcp_invoke_call(req[r].body, resp)), Seen(resp))
    /\ UNCHANGED <<clientKind, app_id, app_secret, token, tcall, disp, proxyOn>>
    /\ UNCHANGED restVars

\* The proxied MCP server answers mcp_proxy.
ProxyRespond(r) ==
    /\ req[r].pc = "awaiting_proxy"
    /\ \E resp \in UpResponses, answer \in ProxyAnswers(req[r].body) :
         Move(r, req[r].endpoint, req[r].body,
              Done(mcp_proxy_respond(req[r].body, resp, answer)),
              Seen(resp))
    /\ UNCHANGED <<clientKind, app_id, app_secret, token, tcall, disp, proxyOn>>
    /\ UNCHANGED restVars

\* The auth endpoint answers the credential exchange of task r.
AuthRespond(r) ==
    /\ req[r].pc = "awaiting_auth"
    /\ \E resp \in AuthResponses :
         /\ token' = CacheAfter(token, resp)
         /\ Move(r, req[r].endpoint, req[r].body,
                 make_request_auth(req[r].body, req[r].step, resp),
                 Seen(resp))
    /\ UNCHANGED <<clientKind, app_id, app_secret, tcall, disp, proxyOn>>
    /\ UNCHANGED restVars

\* The Lark API answers the request of task r.
ApiRespond(r) ==
    /\ req[r].pc = "awaiting_api"
    /\ \E resp \in UpResponses :
         Move(r, req[r].endpoint, req[r].body,
              make_request_api(req[r].body, req[r].step, resp,
                               token, app_id, app_secret),
              Seen(resp))
    /\ UNCHANGED <<clientKind, app_id, app_secret, token, tcall, disp, proxyOn>>
    /\ UNCHANGED restVars

(***************************************************************************)
(* src/server_enhanced.py: check_rate_limit.  Time is counted in whole     *)
(* seconds and moves in steps of a third of the window.                    *)
(***************************************************************************)
RATE_LIMIT_REQUESTS == 2    \* int(os.getenv("RATE_LIMIT_REQUESTS", "10"))
RATE_LIMIT_WINDOW == 60
MaxTicks == 5               \* how often the clock moves

TickLen == RATE_LIMIT_WINDOW \div 3

Identifiers == {"test_user", "heavy_user"}

\* The chat ids send calls carry; "" is the empty chat id.
Chats == {"", "oc_1"}

\* f"{prefix}_{hashlib.md5(chat_id.encode()).hexdigest()}"
RateKey(prefix, chat_id) ==
    CASE prefix = "lark" /\ chat_id = "" -> "lark_md5()"
      [] prefix = "lark" /\ chat_id = "oc_1" -> "lark_md5(oc_1)"
      [] prefix = "telegram" /\ chat_id = "" -> "telegram_md5()"
      [] prefix = "telegram" /\ chat_id = "oc_1" -> "telegram_md5(oc_1)"

\* Every identifier check_rate_limit is called with.
RateIds ==
    Identifiers \cup {RateKey(p, c) : p \in {"lark", "telegram"}, c \in Chats}

\* Variant of Cleaned that keeps a time exactly one window old.
Cleaned_KeepBoundary(times, t) ==
    SelectSeq(times, LAMBDA x : x >= t - RATE_LIMIT_WINDOW)

\* [req_time for req_time in ... if req_time > window_start]
Cleaned(times, t) ==
    SelectSeq(times, LAMBDA x : x > t - RATE_LIMIT_WINDOW)

\* Variant of LimitReached that lets one more request through.
LimitReached_OffByOne(times) == Len(times) > RATE_LIMIT_REQUESTS

\* len(rate_limit_storage[identifier]) >= RATE_LIMIT_REQUESTS
LimitReached(times) == Len(times) >= RATE_LIMIT_REQUESTS

\* Variant of check_rate_limit that records the time of a denied check too.
check_rate_limit_RecordsDenied(storage, identifier, t) ==
    LET kept == IF identifier \in DOMAIN storage
                THEN Cleaned(storage[identifier], t) ELSE <<>>
        okay == ~LimitReached(kept)
    IN [ok |-> okay,
        storage |-> (identifier :> Append(kept, t)) @@ storage]

\* check_rate_limit(identifier) at time t: its return value and the storage
\* it leaves.
check_rate_limit(storage, identifier, t) ==
    LET kept == IF identifier \in DOMAIN storage
                THEN Cleaned(storage[identifier], t) ELSE <<>>
        okay == ~LimitReached(kept)
    IN [ok |-> okay,
        storage |-> (identifier :> (IF okay THEN Append(kept, t) ELSE kept))
                      @@ storage]

NoCheck == [id |-> None, at |-> 0, ok |-> FALSE]

\* The effect of one check_rate_limit call on the rate-limit state.
Checking(identifier) ==
    LET res == check_rate_limit(rate_limit_storage, identifier, now) IN
    /\ rate_limit_storage' = res.storage
    /\ checked' = [id |-> identifier, at |-> now, ok |-> res.ok]
    /\ grants' = IF res.ok
                 THEN [grants EXCEPT ![identifier] = Append(@, now)]
                 ELSE grants
    /\ now' = now

\* A caller checks the limit of an identifier.
RateCheck(identifier) ==
    /\ Checking(identifier)
    /\ UNCHANGED <<tokenVars, dispVars, sendVars, batch>>

\* Time passes.
Tick ==
    /\ now < MaxTicks * TickLen
    /\ now' = now + TickLen
    /\ UNCHANGED <<rate_limit_storage, grants, checked>>
    /\ UNCHANGED <<tokenVars, dispVars, sendVars, batch>>

InitRateIdle ==
    /\ now = 0
    /\ rate_limit_storage = [x \in {} |-> <<>>]
    /\ grants = [i \in RateIds |-> <<>>]
    /\ checked = NoCheck

(***************************************************************************)
(* Sending a text: send_lark and send_telegram of src/server_enhanced.py,  *)
(* send_telegram of src/server.py, send_telegram_endpoint of src/app.py    *)
(* with SecurityManager.validate_content of src/security_config.py.        *)
(***************************************************************************)
LARK_LIMIT == 4000
TELEGRAM_LIMIT == 4096
max_content_length == 4000

\* A text is its length, whether str.strip() leaves nothing of it, and
\* whether one of the forbidden patterns occurs in it.
Text(len, blank, forbidden) ==
    [len |-> len, blank |-> blank, forbidden |-> forbidden]

Texts ==
    { Text(0, TRUE, FALSE), Text(1, TRUE, FALSE), Text(1, FALSE, TRUE) }
      \cup { Text(n, FALSE, FALSE) :
               n \in {1, LARK_LIMIT, LARK_LIMIT + 1,
                      TELEGRAM_LIMIT, TELEGRAM_LIMIT + 1} }

ApiKeys == {None, "secret123", "wrong_key"}

\* Variant of authenticate_request that lets a missing key through.
authenticate_request_MissingAccepted(configured, api_key) ==
    ~Truthy(configured) \/ ~Truthy(api_key) \/ api_key = configured

\* authenticate_request(api_key) with API_KEY = configured
authenticate_request(configured, api_key) ==
    IF ~Truthy(configured) THEN TRUE ELSE api_key = configured

\* not chat_id or not chat_id.strip()
EmptyChat(chat_id) == chat_id = ""

\* not text or not text.strip()
EmptyText(text) == text.len = 0 \/ text.blank

\* The input validation of send_lark / send_telegram, "ok" when it passes.
ValidateInputs(limit, chat_id, text) ==
    IF EmptyChat(chat_id) THEN "empty_chat"
    ELSE IF EmptyText(text) THEN "empty_text"
    ELSE IF text.len > limit THEN "too_long"
    ELSE "ok"

\* SecurityManager.validate_content, "ok" when it returns.
validate_content(content) ==
    IF EmptyText(content) THEN "empty_text"
    ELSE IF content.len > max_content_length THEN "too_long"
    ELSE IF content.forbidden THEN "forbidden"
    ELSE "ok"

\* SecurityManager.validate_chat_id, "ok" when it returns (every chat id of
\* Chats is made of the allowed characters).
validate_chat_id(chat_id) ==
    IF EmptyChat(chat_id) THEN "empty_chat" ELSE "ok"

\* How the platform call of a send can end.
Deliveries == {"sent", "send_failed"}

SendResult(variant, platform, chat_id, text, api_key, authed, outcome) ==
    [variant |-> variant, platform |-> platform, chat_id |-> chat_id,
     text |-> text, api_key |-> api_key, authed |-> authed,
     outcome |-> outcome, upstream |-> outcome \in Deliveries]

NoSend == SendResult("none", "none", "", Text(0, TRUE, FALSE), None, FALSE, "none")

\* Variant of SendEnhanced that checks the rate limit before the key.
SendEnhanced_RateFirst(variant, platform, limit, chat_id, text, api_key) ==
    LET authed == authenticate_request(API_KEY, api_key)
        Res(o) == SendResult(variant, platform, chat_id, text, api_key, authed, o)
        v == ValidateInputs(limit, chat_id, text)
    IN
    /\ Checking(RateKey(platform, chat_id))
    /\ IF ~checked'.ok THEN sendRes' = Res("rate_limited")
       ELSE IF ~authed THEN sendRes' = Res("auth_failed")
       ELSE IF v # "ok" THEN sendRes' = Res(v)
       ELSE IF ~clientsUp THEN sendRes' = Res("no_client")
       ELSE \E d \in Deliveries : sendRes' = Res(d)

\* send_lark / send_telegram of src/server_enhanced.py: authentication, rate
\* limit, validation, client, platform call.
SendEnhanced(variant, platform, limit, chat_id, text, api_key) ==
    LET authed == authenticate_request(API_KEY, api_key)
        Res(o) == SendResult(variant, platform, chat_id, text, api_key, authed, o)
        v == ValidateInputs(limit, chat_id, text)
    IN
    IF ~authed
    THEN /\ sendRes' = Res("auth_failed")
         /\ UNCHANGED rateVars
    ELSE /\ Checking(RateKey(platform, chat_id))
         /\ IF ~checked'.ok THEN sendRes' = Res("rate_limited")
            ELSE IF v # "ok" THEN sendRes' = Res(v)
            ELSE IF ~clientsUp THEN sendRes' = Res("no_client")
            ELSE \E d \in Deliveries : sendRes' = Res(d)

send_lark ==
    /\ \E text \in Texts, api_key \in ApiKeys :
         SendEnhanced("send_lark", "lark", LARK_LIMIT, peer, text, api_key)
    /\ UNCHANGED <<tokenVars, dispVars, API_KEY, clientsUp, peer, batch>>

send_telegram ==
    /\ \E text \in Texts, api_key \in ApiKeys :
         SendEnhanced("send_telegram", "telegram", TELEGRAM_LIMIT,
                      peer, text, api_key)
    /\ UNCHANGED <<tokenVars, dispVars, API_KEY, clientsUp, peer, batch>>

\* send_telegram of src/server.py: the text goes to the bot as it is.
server_send_telegram ==
    /\ \E text \in Texts, d \in Deliveries :
         sendRes' = SendResult("server.send_telegram", "telegram", peer,
                               text, None, TRUE, d)
    /\ UNCHANGED <<tokenVars, dispVars, rateVars, API_KEY, clientsUp, peer, batch>>

\* send_telegram_endpoint of src/app.py, entered once verify_api_key and the
\* limiter have let the request through.
send_telegram_endpoint ==
    /\ \E text \in Texts :
         LET Res(o) == SendResult("send_telegram_endpoint", "telegram",
                                  peer, text, None, TRUE, o)
             vc == validate_content(text)
             vi == validate_chat_id(peer)
         IN IF ~clientsUp THEN sendRes' = Res("no_client")
            ELSE IF vc # "ok" THEN sendRes' = Res(vc)
            ELSE IF vi # "ok" THEN sendRes' = Res(vi)
            ELSE \E d \in Deliveries : sendRes' = Res(d)
    /\ UNCHANGED <<tokenVars, dispVars, rateVars, API_KEY, clientsUp, peer, batch>>

InitSendIdle ==
    /\ API_KEY = None
    /\ clientsUp = TRUE
    /\ peer = ""
    /\ sendRes = NoSend

(***************************************************************************)
(* Batch calls: the batch endpoints of src/app.py with the batch methods   *)
(* of LarkClient and get_access_token.                                     *)
(***************************************************************************)
MaxBatch == 3     \* most records in one batch
MaxExchanges == 3 \* credential exchanges after which no further batch starts

\* What the table store can answer to a batch of n records: created is the
\* number of records in data.records of the body.
BatchResponses(n) ==
    [kind : {"json"}, status : {200}, code : {0}, created : 0..n]
      \cup [kind : {"json"}, status : {200, 500}, code : {1254001}, created : {0}]
      \cup [kind : {"nonjson"}, status : {200}, code : {0}, created : {0}]
      \cup [kind : {"transport"}, status : {0}, code : {0}, created : {0}]

NoBatchUp == [kind |-> "none", status |-> 0, code |-> 0, created |-> 0]

\* MessageResponse(success, message, details, api_response) with the count
\* its message and details state, sent with HTTP status http.
MessageResponse(success, record_count, api_response) ==
    [http |-> 200, success |-> success, record_count |-> record_count,
     api_response |-> api_response]

\* raise HTTPException(status_code=..., detail=...)
HTTPException(status) ==
    [http |-> status, success |-> FALSE, record_count |-> 0,
     api_response |-> NoBatchUp]

NoBatchResult ==
    [http |-> 0, success |-> FALSE, record_count |-> 0,
     api_response |-> NoBatchUp]

\* Variant of BatchAnswer that flags the batch by comparing the number of
\* records created with the number asked for.
BatchAnswer_Counted(n, resp) ==
    IF resp.kind # "json" THEN HTTPException(500)
    ELSE IF resp.status = 200 /\ resp.code = 0
    THEN MessageResponse(resp.created = n, resp.created, resp)
    ELSE MessageResponse(FALSE, 0, resp)

\* A batch endpoint that creates or updates, once the table store has
\* answered.
BatchAnswer(n, resp) ==
    IF resp.kind # "json" THEN HTTPException(500)      \* raised, caught
    ELSE IF resp.status = 200 /\ resp.code = 0
    THEN MessageResponse(TRUE, resp.created, resp)
    ELSE MessageResponse(FALSE, 0, resp)

\* The batch operations of LarkClient, each behind an endpoint of src/app.py.
BatchOps == {"batch_create", "batch_update", "batch_delete"}

\* The httpx call the client method of a batch operation makes.
BatchVerb(op) == IF op = "batch_delete" THEN "DELETE" ELSE "POST"

\* One outbound request of a batch call and the number of records it carries.
BatchOutbound(to, verb, records) == [to |-> to, verb |-> verb, records |-> records]

IdleBatch == [pc |-> "idle", op |-> "batch_create", n |-> 0, sent |-> <<>>,
              result |-> NoBatchResult]

\* The client method from the token on: one request with json={"records": ...}.
\* AsyncClient.delete takes no json argument, so batch_delete raises TypeError
\* before anything is sent; the endpoint turns that into HTTP 500.
BatchRequest(b) ==
    IF BatchVerb(b.op) = "DELETE"
    THEN [b EXCEPT !.pc = "done", !.result = HTTPException(500)]
    ELSE [b EXCEPT !.pc = "awaiting_api",
                   !.sent = b.sent \o <<BatchOutbound("lark", BatchVerb(b.op), b.n)>>]

\* A batch endpoint is called with n records and runs to its first await.
BatchStart ==
    /\ batch.pc \in {"idle", "done"}
    /\ authSent < MaxExchanges
    /\ \E n \in 1..MaxBatch, op \in BatchOps :
         LET b == [pc |-> "idle", op |-> op, n |-> n, sent |-> <<>>,
                   result |-> NoBatchResult]
         IN
         IF ~ClientBuilt("LarkClient", app_id, app_secret)
         THEN /\ batch' = [b EXCEPT !.pc = "done", !.result = HTTPException(503)]
              /\ UNCHANGED authSent
         ELSE IF GetTokenEntry("LarkClient", token, app_id, app_secret) = "hit"
         THEN /\ batch' = BatchRequest(b)
              /\ UNCHANGED authSent
         ELSE /\ batch' = [b EXCEPT !.pc = "awaiting_auth",
                                    !.sent = <<BatchOutbound("auth", "POST", 0)>>]
              /\ authSent' = authSent + 1
    /\ UNCHANGED <<clientKind, app_id, app_secret, token, tcall>>
    /\ UNCHANGED <<dispVars, rateVars, sendVars>>

\* The auth endpoint answers the exchange of the batch call.
BatchAuthRespond ==
    /\ batch.pc = "awaiting_auth"
    /\ \E resp \in AuthResponses :
         /\ token' = CacheAfter(token, resp)
         /\ batch' = IF AuthOk(resp)
                     THEN BatchRequest(batch)
                     ELSE [batch EXCEPT !.pc = "done",
                                        !.result = HTTPException(500)]
    /\ UNCHANGED <<clientKind, app_id, app_secret, authSent, tcall>>
    /\ UNCHANGED <<dispVars, rateVars, sendVars>>

\* The table store answers the batch.
BatchApiRespond ==
    /\ batch.pc = "awaiting_api"
    /\ \E resp \in BatchResponses(batch.n) :
         batch' = [batch EXCEPT !.pc = "done",
                                !.result = BatchAnswer(batch.n, resp)]
    /\ UNCHANGED tokenVars
    /\ UNCHANGED <<dispVars, rateVars, sendVars>>

InitBatchIdle == batch = IdleBatch

Init ==
    /\ disp \in {"bridge", "app_bridge", "enhanced"}
    /\ proxyOn \in IF disp = "bridge" THEN BOOLEAN ELSE {FALSE}
    /\ req = [r \in Reqs |-> IdleReq]
    /\ out = [r \in Reqs |-> NoEnvelope]
    \* enhanced_bitable_client exists in the enhanced module alone
    /\ clientKind = "LarkBitableClient"
    /\ app_id \in IF disp = "enhanced" THEN {"", "cli_a1"} ELSE {""}
    /\ app_secret = IF app_id = "" THEN "" ELSE "s3cret"
    /\ token \in IF disp = "enhanced" THEN {None, "t-env"} ELSE {None}
    /\ authSent = 0
    /\ tcall = [c \in Calls |-> IdleCall]
    /\ InitRateIdle /\ InitSendIdle /\ InitBatchIdle

Next ==
    \/ \E r \in Reqs : Invoke(r)
    \/ \E r \in Reqs : InvokeProxy(r)
    \/ \E r \in Reqs : ListRespond(r)
    \/ \E r \in Reqs : CallRespond(r)
    \/ \E r \in Reqs : ProxyRespond(r)
    \/ \E r \in Reqs : AuthRespond(r)
    \/ \E r \in Reqs : ApiRespond(r)

Spec == Init /\ [][Next]_vars

InitDispIdle ==
    /\ disp = "enhanced"
    /\ proxyOn = FALSE
    /\ req = [r \in Reqs |-> IdleReq]
    /\ out = [r \in Reqs |-> NoEnvelope]

InitToken ==
    /\ clientKind \in {"LarkClient", "LarkBitableClient"}
    /\ app_id \in {"", "cli_a1"}
    /\ app_secret \in {"", "s3cret"}
    \* LarkClient starts with _access_token = None; LarkBitableClient takes
    \* LARK_TENANT_ACCESS_TOKEN from the environment.
    /\ token \in IF clientKind = "LarkClient" THEN {None} ELSE {None, "", "t-env"}
    /\ authSent = 0
    /\ tcall = [c \in Calls |-> IdleCall]
    /\ InitDispIdle
    /\ InitRateIdle /\ InitSendIdle /\ InitBatchIdle

NextToken ==
    \/ \E c \in Calls : TokenCallStart(c)
    \/ \E c \in Calls : TokenCallRespond(c)

SpecToken == InitToken /\ [][NextToken]_vars

\* No client of src/app.py is in use.
InitTokenIdle ==
    /\ clientKind = "LarkClient"
    /\ app_id = "" /\ app_secret = ""
    /\ token = None
    /\ authSent = 0
    /\ tcall = [c \in Calls |-> IdleCall]

\* check_rate_limit alone, as src/test_server.py drives it.
InitRate ==
    /\ InitTokenIdle /\ InitDispIdle
    /\ InitRateIdle /\ InitSendIdle /\ InitBatchIdle

NextRate ==
    \/ Tick
    \/ \E identifier \in Identifiers : RateCheck(identifier)

SpecRate == InitRate /\ [][NextRate]_vars

\* The send tools and endpoints, within one rate-limit window.
InitSend ==
    /\ InitTokenIdle /\ InitDispIdle
    /\ InitRateIdle /\ InitBatchIdle
    /\ API_KEY \in {None, "", "secret123"}
    /\ clientsUp \in BOOLEAN
    /\ peer \in Chats
    /\ sendRes = NoSend

NextSend ==
    \/ send_lark
    \/ send_telegram
    \/ server_send_telegram
    \/ send_telegram_endpoint

SpecSend == InitSend /\ [][NextSend]_vars

\* The batch-create endpoint of src/app.py.
InitBatch ==
    /\ clientKind = "LarkClient"
    /\ app_id \in {"", "cli_a1"}
    /\ app_secret = IF app_id = "" THEN "" ELSE "s3cret"
    /\ token = None
    /\ authSent = 0
    /\ tcall = [c \in Calls |-> IdleCall]
    /\ InitDispIdle
    /\ InitRateIdle /\ InitSendIdle /\ InitBatchIdle

NextBatch ==
    \/ BatchStart
    \/ BatchAuthRespond
    \/ BatchApiRespond

SpecBatch == InitBatch /\ [][NextBatch]_vars

\* Concurrent tool calls of the enhanced dispatcher on the one
\* enhanced_bitable_client, which starts with credentials and no token.
InitShared ==
    /\ disp = "enhanced"
    /\ proxyOn = FALSE
    /\ req = [r \in Tasks |-> IdleReq]
    /\ out = [r \in Tasks |-> NoEnvelope]
    /\ clientKind = "LarkBitableClient"
    /\ app_id = "cli_a1"
    /\ app_secret = "s3cret"
    /\ token = None
    /\ authSent = 0
    /\ tcall = [c \in Calls |-> IdleCall]
    /\ InitRateIdle /\ InitSendIdle /\ InitBatchIdle

NextShared ==
    \/ \E r \in Tasks : InvokeShared(r)
    \/ \E r \in Tasks : AuthRespond(r)
    \/ \E r \in Tasks : ApiRespond(r)

SpecShared == InitShared /\ [][NextShared]_vars

(***************************************************************************)
(* Claims about the token cache, checked under SpecToken.                  *)
(***************************************************************************)
Started(c) == tcall[c].pc # "idle"
Finished(c) == tcall[c].pc \in {"returned", "raised", "unavailable"}
Returned(c) == tcall[c].pc = "returned"
Failed(c) == tcall[c].pc \in {"raised", "unavailable"} /\ tcall[c].ret = None

\* C1: while the calls that missed the empty cache are still waiting for the
\* auth endpoint (no exchange has been answered yet), exactly one credential
\* exchange has been sent, however many calls started.
C1_SingleFlight ==
    ((\E c \in Calls : tcall[c].pc = "awaiting")
       /\ (\A c \in Calls : tcall[c].pc \in {"idle", "awaiting"}))
      => authSent = 1

\* C2: once some getToken call has returned a token, every call that starts
\* afterwards returns the cached token at once, posts no credential exchange
\* and leaves the cache alone.
C2_CachedAfterSuccess ==
    [][\A c \in Calls :
         ((\E d \in Calls : Returned(d)) /\ tcall[c].pc = "idle" /\ Started(c)')
           => (/\ Returned(c)'
               /\ tcall'[c].ret = token
               /\ token' = token
               /\ authSent' = authSent)]_vars

\* C2 witness: one call filled the cache through the exchange and another
\* call was then served from the cache with that same token.
C2_Witness ==
    \E c, d \in Calls :
        /\ Returned(c) /\ AuthOk(tcall[c].resp)
        /\ Returned(d) /\ tcall[d].hit /\ tcall[d].ret = tcall[c].ret

\* C3 as stated: a finished call failed whenever the credentials are absent or
\* its exchange was answered without success, and a token is returned only
\* with credentials present and a successful exchange behind it.
C3_AsStated ==
    \A c \in Calls :
        /\ (Finished(c) /\ ~CredentialsPresent) => Failed(c)
        /\ (Finished(c) /\ tcall[c].resp.kind # "none" /\ ~AuthOk(tcall[c].resp))
              => Failed(c)
        /\ Returned(c) => (CredentialsPresent
                            /\ \E d \in Calls : AuthOk(tcall[d].resp))

\* C3 amended: a call that finds no cached token fails, returning nothing,
\* whenever the credentials are absent or its exchange was answered without
\* success; a token is returned only from the cache or after the call's own
\* exchange succeeded with credentials present; and every token in the cache
\* is the pre-configured one or came from a successful exchange.
C3_FailsUnlessCachedOrExchanged ==
    /\ \A c \in Calls :
        /\ (Finished(c) /\ ~tcall[c].hit
              /\ (~CredentialsPresent \/ ~AuthOk(tcall[c].resp)))
             => Failed(c)
        /\ Returned(c) =>
             /\ Truthy(tcall[c].ret)
             /\ \/ tcall[c].hit
                \/ CredentialsPresent /\ AuthOk(tcall[c].resp)
                     /\ tcall[c].ret = tcall[c].resp.tenant_access_token
    /\ Truthy(token) =>
         \/ clientKind = "LarkBitableClient" /\ token = "t-env"
         \/ CredentialsPresent
              /\ \E d \in Calls : AuthOk(tcall[d].resp)
                                    /\ tcall[d].resp.tenant_access_token = token

\* C3 witness: one call failed on an unsuccessful answer of the auth endpoint
\* and another obtained its token from a successful exchange.
C3_Witness ==
    \E c, d \in Calls :
        /\ tcall[c].pc = "raised" /\ tcall[c].resp.kind = "http"
        /\ ~AuthOk(tcall[c].resp)
        /\ Returned(d) /\ ~tcall[d].hit /\ AuthOk(tcall[d].resp)

(***************************************************************************)
(* Claims about the dispatchers, checked under Spec.                       *)
(***************************************************************************)
Arrived(r) == req[r].pc # "idle"
Ended(r) == req[r].pc = "done"
AtInvoke(r) == Arrived(r) /\ req[r].endpoint = "invoke"

\* The body is an envelope the dispatcher d reads as JSON-RPC: an object,
\* and for invoke_mcp_tool one whose jsonrpc is "2.0".
Accepted(d, body) ==
    body.raw = "object" /\ (d = "enhanced" => body.jsonrpc = "2.0")

\* Number of descriptors named n in a tools listing.
Count(n, tools) == Cardinality({k \in DOMAIN tools : tools[k] = n})

\* C4: a tools/call whose name is a non-empty string absent from the
\* dispatcher's registry ends, for every argument map, in an error envelope
\* with code -32601.
C4_UnknownToolNotFound ==
    \A r \in Reqs :
        (/\ AtInvoke(r)
         /\ Accepted(disp, req[r].body)
         /\ req[r].body.method = "tools/call"
         /\ req[r].body.params = "object"
         /\ Truthy(req[r].body.name)
         /\ req[r].body.name \notin RegisteredNames(disp))
        => (Ended(r) /\ out[r].kind = "error" /\ out[r].code = -32601)

\* C4 witness: an unregistered name sent with a non-empty argument map has
\* been answered.
C4_Witness ==
    \E r \in Reqs :
        /\ AtInvoke(r) /\ Ended(r)
        /\ Accepted(disp, req[r].body)
        /\ req[r].body.method = "tools/call"
        /\ req[r].body.name = "no_such_tool"
        /\ req[r].body.arguments # <<>>
        /\ out[r].code = -32601

\* C5: a tools/call without params.name (params missing, name missing or
\* name empty) ends in an error envelope with code -32602, in every
\* dispatcher variant.
C5_MissingNameInvalidParams ==
    \A r \in Reqs :
        (/\ AtInvoke(r)
         /\ Accepted(disp, req[r].body)
         /\ req[r].body.method = "tools/call"
         /\ req[r].body.params \in {"absent", "object"}
         /\ ~Truthy(req[r].body.name))
        => (Ended(r) /\ out[r].kind = "error" /\ out[r].code = -32602)

\* C6: a body that does not parse ends in an error envelope with code
\* -32700 and in nothing else.
C6_MalformedParseError ==
    \A r \in Reqs :
        (AtInvoke(r) /\ req[r].body.raw = "malformed")
        => (Ended(r) /\ out[r].kind = "error" /\ out[r].code = -32700)

\* C7: an envelope whose method is neither tools/list nor tools/call, or is
\* missing, ends in an error envelope with code -32601, and no outbound call
\* was made for it.
C7_UnknownMethodNotFound ==
    \A r \in Reqs :
        (/\ AtInvoke(r)
         /\ Accepted(disp, req[r].body)
         /\ req[r].body.method \notin {"tools/list", "tools/call"})
        => (/\ Ended(r)
            /\ out[r].kind = "error" /\ out[r].code = -32601
            /\ req[r].sent = <<>>)

\* C7 witness: an envelope with the unknown method resources/list has been
\* answered with -32601 and nothing was sent for it.
C7_Witness ==
    \E r \in Reqs :
        /\ AtInvoke(r) /\ Ended(r)
        /\ Accepted(disp, req[r].body)
        /\ req[r].body.method = "resources/list"
        /\ out[r].kind = "error" /\ out[r].code = -32601
        /\ req[r].sent = <<>>

\* C8: every call that has ended holds one envelope, a result or an error,
\* whose id is the id of the inbound request, on every path.
C8_OneEnvelopeWithId ==
    \A r \in Reqs :
        Ended(r) => (/\ out[r].kind \in {"result", "error"}
                     /\ out[r].id = req[r].body.id)

\* C9: a tools/list call makes no outbound call and ends at once with the
\* whole registry as its result.
C9_ListShortCircuits ==
    \A r \in Reqs :
        (/\ AtInvoke(r)
         /\ Accepted(disp, req[r].body)
         /\ req[r].body.method = "tools/list")
        => (/\ req[r].sent = <<>>
            /\ Ended(r)
            /\ out[r].kind = "result"
            /\ {out[r].result.tools[k] : k \in DOMAIN out[r].result.tools}
                 = RegisteredNames(disp))

\* C10: the listing a tools/list call returns, when its source answered
\* normally, holds exactly one descriptor for every name that tools/call of
\* the same dispatcher accepts.
C10_ListingMatchesRegistry ==
    \A r \in Reqs :
        (/\ AtInvoke(r) /\ Ended(r)
         /\ req[r].body.method = "tools/list"
         /\ out[r].kind = "result"
         /\ out[r].result.tools # <<>>)
        => \A n \in RegisteredNames(disp) : Count(n, out[r].result.tools) = 1

(***************************************************************************)
(* Claims about path substitution and the translation of upstream answers, *)
(* checked under Spec.                                                     *)
(***************************************************************************)
Bridged == disp \in {"bridge", "app_bridge"}

\* Task r is a tools/call of a registered tool in one of the proxying bridges.
BridgedCall(r) ==
    /\ Bridged /\ AtInvoke(r)
    /\ req[r].body.raw = "object"
    /\ req[r].body.method = "tools/call"
    /\ req[r].body.name \in RegisteredNames(disp)

Template(r) ==
    IF disp = "bridge" THEN TOOL_MAP[req[r].body.name].path
    ELSE APP_TOOL_MAP[req[r].body.name].path

\* Every placeholder of the template has a value in the argument map.
Supplied(path, args) ==
    \A i \in DOMAIN path :
        IsPlaceholder(path[i]) => KeyOf(path[i]) \in ArgKeys(args)

\* The template with every placeholder replaced by the value of its key and
\* every other piece left alone: the literal substitution, which does not
\* depend on any order of the argument map.
Literal(path, args) ==
    [i \in DOMAIN path |->
        IF IsPlaceholder(path[i]) /\ KeyOf(path[i]) \in ArgKeys(args)
        THEN Get(args, KeyOf(path[i])) ELSE path[i]]

\* C11: when the argument map supplies a value for every placeholder of the
\* tool's template, the URL of the request sent is the template with each
\* placeholder replaced by the string form of its value, nothing else
\* changed and no placeholder of the template left, whatever the order of
\* the argument map.
C11_LiteralSubstitution ==
    \A r \in Reqs :
        (/\ BridgedCall(r)
         /\ Supplied(Template(r), req[r].body.arguments)
         /\ req[r].sent # <<>>)
        => req[r].sent[1].url = Literal(Template(r), req[r].body.arguments)

\* C12: a tools/call whose argument map lacks a value for a placeholder of
\* the tool's template ends in the validation error -32602, and no request
\* whose URL still holds a placeholder is sent.
C12_UnresolvedRejected ==
    \A r \in Reqs :
        (/\ BridgedCall(r)
         /\ ~Supplied(Template(r), req[r].body.arguments))
        => (/\ \A k \in DOMAIN req[r].sent :
                  \A i \in DOMAIN req[r].sent[k].url :
                      ~IsPlaceholder(req[r].sent[k].url[i])
            /\ Ended(r) /\ out[r].kind = "error" /\ out[r].code = -32602)

\* Task r is a tools/call of a registered tool, in any dispatcher.
ToolCall(r) ==
    /\ AtInvoke(r)
    /\ Accepted(disp, req[r].body)
    /\ req[r].body.method = "tools/call"
    /\ req[r].body.params = "object"
    /\ req[r].body.name \in RegisteredNames(disp)

\* Both layers of an upstream answer say success.
TwoLayerSuccess(got) ==
    got.kind = "json" /\ got.status \in 200..299 /\ got.code = 0

\* C13: a tool call that the upstream answered ends in a result envelope
\* that is not marked as an error only if that answer had an HTTP 2xx status
\* and business code 0.
C13_TwoLayerSuccess ==
    \A r \in Reqs :
        (/\ ToolCall(r) /\ Ended(r)
         /\ req[r].got.kind # "none"
         /\ out[r].kind = "result" /\ ~out[r].result.isError)
        => TwoLayerSuccess(req[r].got)

\* execute_bitable_operation finds a required argument missing or empty.
ValidationFailed(r) ==
    /\ disp = "enhanced"
    /\ StartsWithBitable(req[r].body.name)
    /\ \E k \in CheckedParams(req[r].body.name) :
          ~Truthy(Get(req[r].body.arguments, k))

\* The call of task r met an error: a validation error, an auth error
\* (no credentials, or the exchange refused), an upstream error (non-2xx or
\* non-zero business code) or a transport error.
Raised(r) ==
    \/ ValidationFailed(r)
    \/ /\ disp = "enhanced" /\ StartsWithBitable(req[r].body.name)
       /\ ~Truthy(token) /\ ~CredentialsPresent
    \/ req[r].got.kind # "none" /\ ~TwoLayerSuccess(req[r].got)

\* C14: a tool call that met an error ends in an error envelope with a
\* non-zero numeric code: never in a result envelope, never with the
\* exception leaving the handler.
C14_ErrorsWrapped ==
    \A r \in Reqs :
        (ToolCall(r) /\ Ended(r) /\ Raised(r))
        => (out[r].kind = "error" /\ out[r].code # 0)


(***************************************************************************)
(* Batch create, send validation, rate limit and authentication.           *)
(***************************************************************************)
\* The batch create has ended on an upstream answer of HTTP 200 with code 0.
BatchAccepted ==
    /\ batch.op = "batch_create"
    /\ batch.pc = "done"
    /\ batch.result.api_response.kind = "json"
    /\ batch.result.api_response.status = 200
    /\ batch.result.api_response.code = 0

\* C15: when the upstream creates K of the N records of a batch, the result
\* states K and does not report the batch as one plain success while N-K
\* records failed.
C15_PartialBatchSurfaced ==
    BatchAccepted =>
      /\ batch.result.record_count = batch.result.api_response.created
      /\ batch.result.success => batch.result.api_response.created = batch.n

\* The length limit of the platform a send goes to.
Limit(platform) == IF platform = "lark" THEN LARK_LIMIT ELSE TELEGRAM_LIMIT

Sent == sendRes.variant # "none"

\* C16: a send with an empty chat id, an empty text or a text longer than
\* the platform's limit (4000 workspace chat, 4096 instant messaging) makes
\* no upstream request, and a text within the limit is never rejected for
\* its length, in every variant.
C16_SendValidated ==
    Sent =>
      /\ (EmptyChat(sendRes.chat_id) \/ EmptyText(sendRes.text)
            \/ sendRes.text.len > Limit(sendRes.platform))
           => ~sendRes.upstream
      /\ sendRes.text.len <= Limit(sendRes.platform)
           => sendRes.outcome # "too_long"

\* The times of seq that lie in the window (t - RATE_LIMIT_WINDOW, t].
InWindow(seq, t) ==
    SelectSeq(seq, LAMBDA x : x > t - RATE_LIMIT_WINDOW /\ x <= t)

\* The instants at which a window can end.
WindowEnds == {k * TickLen : k \in 0..MaxTicks}

\* C18: check_rate_limit grants at most RATE_LIMIT_REQUESTS requests per
\* identifier in any window of RATE_LIMIT_WINDOW seconds: starting from
\* empty storage it refuses a check only when the window ending at that
\* check already holds RATE_LIMIT_REQUESTS grants.
C18_AtMostLimitPerWindow ==
    /\ \A i \in RateIds : \A t \in WindowEnds :
         Len(InWindow(grants[i], t)) <= RATE_LIMIT_REQUESTS
    /\ (checked.id # None /\ ~checked.ok) =>
         Len(InWindow(grants[checked.id], checked.at)) = RATE_LIMIT_REQUESTS

\* A check was refused in a window holding RATE_LIMIT_REQUESTS grants.
C18_Witness ==
    /\ checked.id \in Identifiers
    /\ ~checked.ok
    /\ Len(grants[checked.id]) = RATE_LIMIT_REQUESTS

\* C19: after a check the stored list of the identifier holds exactly the
\* grants newer than the check's time minus RATE_LIMIT_WINDOW, so older
\* grants no longer count and the identifier is granted again once they
\* have aged out.
C19_WindowCleaned ==
    checked.id # None =>
      /\ checked.id \in DOMAIN rate_limit_storage
      /\ rate_limit_storage[checked.id]
           = InWindow(grants[checked.id], checked.at)
      /\ Len(InWindow(grants[checked.id], checked.at)) < RATE_LIMIT_REQUESTS
           => checked.ok

\* An identifier that had used up its window is granted again after the
\* earlier grants have aged out of the stored list.
C19_Witness ==
    /\ checked.id \in Identifiers
    /\ checked.ok
    /\ Len(grants[checked.id]) > RATE_LIMIT_REQUESTS
    /\ Len(rate_limit_storage[checked.id]) < Len(grants[checked.id])

\* The last send went through send_lark or send_telegram of
\* src/server_enhanced.py.
SentEnhanced == sendRes.variant \in {"send_lark", "send_telegram"}

\* C20: with no server API key configured every key, a missing one
\* included, is let through; with a key configured exactly the calls
\* carrying that key are let through.
C20_Authenticated ==
    SentEnhanced =>
      (sendRes.outcome # "auth_failed"
         <=> (API_KEY \in {None, ""} \/ sendRes.api_key = API_KEY))

\* A call without a key was rejected by a server that has a key configured.
C20_Witness ==
    /\ SentEnhanced
    /\ API_KEY = "secret123"
    /\ sendRes.api_key = None
    /\ sendRes.outcome = "auth_failed"


(***************************************************************************)
(* Concurrent calls and the shared token cache.                            *)
(***************************************************************************)
\* The envelope o reports an error.
IsErrorEnvelope(o) ==
    \/ o.kind \in {"error", "unhandled"}
    \/ o.kind = "result" /\ o.result.isError

\* The call of task r has ended in an error.
EndedInError(r) == req[r].pc = "done" /\ IsErrorEnvelope(out[r])

Orders(args) ==
    { [i \in DOMAIN args |-> args[f[i]]] : f \in Permutations(DOMAIN args) }

\* C21: a value substituted for one placeholder is not itself read as a
\* template (a value that is the text of another placeholder stays in the
\* URL as it is), and the resolved URL is the same for every order of the
\* argument map.
C21_IdempotentPerKey ==
    \A r \in Reqs :
        (BridgedCall(r) /\ req[r].sent # <<>>)
        => LET args == req[r].body.arguments
               url == req[r].sent[1].url
           IN /\ \A i \in DOMAIN Template(r) :
                    (/\ IsPlaceholder(Template(r)[i])
                     /\ KeyOf(Template(r)[i]) \in ArgKeys(args)
                     /\ IsPlaceholder(Get(args, KeyOf(Template(r)[i]))))
                    => url[i] = Get(args, KeyOf(Template(r)[i]))
              /\ \A p \in Orders(args) : Substitute(Template(r), p) = url

\* The verb of the tool task r calls.
Verb(r) ==
    IF disp = "bridge" THEN TOOL_MAP[req[r].body.name].http_method
    ELSE APP_TOOL_MAP[req[r].body.name].http_method

\* C22: a call of a registered tool sends one request that carries the
\* whole, unmodified argument map: as the JSON body when the verb is POST,
\* PUT or PATCH, as query parameters when it is GET or DELETE.
C22_ArgumentsForwarded ==
    \A r \in Reqs :
        BridgedCall(r)
        => /\ Len(req[r].sent) = 1
           /\ req[r].sent[1].payload = req[r].body.arguments
           /\ req[r].sent[1].carrier =
                 (CASE Verb(r) \in {"POST", "PUT", "PATCH"} -> "json"
                    [] Verb(r) \in {"GET", "DELETE"} -> "params")


(***************************************************************************)
(* Claims about the enhanced dispatcher's client operations.               *)
(***************************************************************************)
\* An upstream answer that says failure in either layer.
UpstreamFailed(got) ==
    ~(got.kind = "json" /\ got.status \in 200..299 /\ got.code = 0)

\* C23: a bitable_get_table_schema call does not end in a success (a result
\* not marked as an error whose body has code 0) when exactly one of its two
\* upstream answers, table metadata and field list, was a failure by status
\* or by business code.
C23_SchemaPartialFailure ==
    \A r \in Reqs :
        (/\ disp = "enhanced" /\ ToolCall(r) /\ Ended(r)
         /\ req[r].body.name = "bitable_get_table_schema"
         /\ req[r].first.kind # "none" /\ req[r].step = "none"
         /\ req[r].got.kind \in {"json", "nonjson", "transport"}
         /\ UpstreamFailed(req[r].first) # UpstreamFailed(req[r].got))
        => ~(/\ out[r].kind = "result"
             /\ ~out[r].result.isError
             /\ out[r].result.data.code = 0)

(***************************************************************************)
(* Claims about the number of upstream requests of one operation, checked  *)
(* under SpecBatch.                                                        *)
(***************************************************************************)
\* The requests of the batch call that went to the given upstream.
BatchSentTo(to) == SelectSeq(batch.sent, LAMBDA m : m.to = to)

\* C24: every batch operation (create, update, delete) issues exactly one
\* table-store request per invocation, which carries the whole batch, and
\* at most one credential exchange besides: an invocation that has ended
\* holding a token has sent one table-store request, and none sends two.
C24_OneRequestPerOperation ==
    /\ Len(BatchSentTo("auth")) <= 1
    /\ Len(BatchSentTo("lark")) <= 1
    /\ \A k \in 1..Len(batch.sent) :
         batch.sent[k].to = "lark" => batch.sent[k].records = batch.n
    /\ batch.pc = "awaiting_api" => Len(BatchSentTo("lark")) = 1
    /\ (batch.pc = "done" /\ batch.result.http # 503 /\ Truthy(token))
         => Len(BatchSentTo("lark")) = 1

(***************************************************************************)
(* Claims about what a call does before it ends, checked under Spec.       *)
(***************************************************************************)
\* The requests task r sent to the operation behind its tool: every request
\* but the credential exchange.
Operations(r) == SelectSeq(req[r].sent, LAMBDA m : m.to # "auth")

\* C25: a tools/call of a registered tool, legacy names included, ends in a
\* result that is not marked as an error only after the operation behind the
\* tool has been requested upstream.
C25_SuccessAfterOperation ==
    \A r \in Reqs :
        (/\ ToolCall(r) /\ Ended(r)
         /\ out[r].kind = "result" /\ ~out[r].result.isError)
        => Operations(r) # <<>>

\* The call of task r names a registered tool and leaves out a parameter
\* the tool requires: a placeholder of its path template in the bridges, a
\* key of the "required" list of its schema in the enhanced dispatcher.
MissingRequired(r) ==
    /\ req[r].body.name \in RegisteredNames(disp)
    /\ IF Bridged
       THEN ~Supplied(Template(r), req[r].body.arguments)
       ELSE \E k \in ENHANCED_TOOL_MAP[req[r].body.name] :
               Get(req[r].body.arguments, k) = None

\* The call of task r carries a protocol error: an unknown method, a missing
\* or unknown tool name, or a missing required parameter.
ProtocolError(r) ==
    /\ AtInvoke(r)
    /\ Accepted(disp, req[r].body)
    /\ \/ req[r].body.method \notin {"tools/list", "tools/call"}
       \/ /\ req[r].body.method = "tools/call"
          /\ \/ ~Truthy(req[r].body.name)
             \/ req[r].body.name \notin RegisteredNames(disp)
             \/ MissingRequired(r)

\* C26: a call with a protocol error (unknown method, unknown or missing
\* tool name, missing required parameter) has ended as soon as it has
\* arrived, and no request, credential exchange or data, was sent for it.
C26_ProtocolErrorsLocal ==
    \A r \in Reqs :
        ProtocolError(r) => (Ended(r) /\ req[r].sent = <<>>)

\* Task r was parsed and routed: its body is a JSON object whose method is
\* one the dispatcher serves.
Routed(r) ==
    /\ req[r].body.raw = "object"
    /\ req[r].body.method \in {"tools/list", "tools/call"}

\* C27: every call that arrived at POST /invoke is either waiting for the
\* answer to a request it sent or has ended in a result or an error
\* envelope, and it sends a request only after it was parsed and routed.
C27_EveryCallAnswered ==
    \A r \in Reqs :
        AtInvoke(r) =>
          /\ ~Ended(r) => (out[r] = NoEnvelope /\ req[r].sent # <<>>)
          /\ Ended(r) => out[r].kind \in {"result", "error"}
          /\ req[r].sent # <<>> => Routed(r)

(***************************************************************************)
(* Claims about the frame of the token cache, checked under SpecToken.     *)
(***************************************************************************)
\* C28: once the token cache holds a value, no step of any getToken call,
\* however the calls interleave, clears it or stores a different value.
C28_TokenWriteOnce ==
    [][Truthy(token) => token' = token]_vars

(***************************************************************************)
(* Claims about the frame of check_rate_limit, checked under SpecRate.     *)
(***************************************************************************)
\* The times of seq that have not expired at time t.
Unexpired(seq, t) == SelectSeq(seq, LAMBDA x : x > t - RATE_LIMIT_WINDOW)

\* C29: a check_rate_limit call leaves the list of every identifier other
\* than its own as it was, and a call that returns False leaves its own
\* identifier's list with the expired times pruned and no time added.
C29_OnlyOwnEntry ==
    [][now' = now =>
         /\ \A i \in DOMAIN rate_limit_storage' :
              i # checked'.id =>
                /\ i \in DOMAIN rate_limit_storage
                /\ rate_limit_storage'[i] = rate_limit_storage[i]
         /\ \A i \in DOMAIN rate_limit_storage :
              i \in DOMAIN rate_limit_storage'
         /\ ~checked'.ok =>
              /\ checked'.id \in DOMAIN rate_limit_storage
              /\ rate_limit_storage'[checked'.id]
                   = Unexpired(rate_limit_storage[checked'.id], now)]_vars

\* C29 witness: a check has been denied while another identifier holds
\* recorded times, and a time of the denied identifier has expired since.
C29_Witness ==
    /\ checked.id # None /\ ~checked.ok
    /\ \E j \in DOMAIN rate_limit_storage :
         j # checked.id /\ rate_limit_storage[j] # <<>>
    /\ Len(grants[checked.id]) > Len(rate_limit_storage[checked.id])

(***************************************************************************)
(* Claims about the order of the checks of a send, checked under SpecSend. *)
(***************************************************************************)
\* The inputs of a send break one of the input rules of its platform.
BadInputs(s) ==
    \/ EmptyChat(s.chat_id)
    \/ EmptyText(s.text)
    \/ s.text.len > Limit(s.platform)

\* C30: a send_lark or send_telegram call checks the key, then the rate
\* limit, then its inputs, then its client, and only then sends: a call
\* with a wrong key ends there and leaves the rate-limit state as it was,
\* every other call is counted against the limit of its chat before
\* anything else is looked at, bad inputs are reported ahead of a missing
\* client, and the platform is called only when all four checks passed.
C30_ChecksInOrder ==
    [][LET s == sendRes'
           keyOk == ~Truthy(API_KEY) \/ s.api_key = API_KEY
       IN s.variant \in {"send_lark", "send_telegram"} =>
            /\ s.outcome = "auth_failed" <=> ~keyOk
            /\ ~keyOk => UNCHANGED rateVars
            /\ keyOk =>
                 /\ checked' = [id |-> RateKey(s.platform, s.chat_id),
                                at |-> now, ok |-> s.outcome # "rate_limited"]
                 /\ checked'.ok =>
                      /\ BadInputs(s) <=>
                           s.outcome \in {"empty_chat", "empty_text", "too_long"}
                      /\ s.outcome = "no_client" <=> (~BadInputs(s) /\ ~clientsUp)
            /\ s.upstream =>
                 (keyOk /\ checked'.ok /\ ~BadInputs(s) /\ clientsUp)]_vars

\* C30 witness: a call with a wrong key, bad inputs and no client configured
\* has ended at the key check, and nothing was ever counted for its chat.
C30_Witness ==
    /\ sendRes.variant \in {"send_lark", "send_telegram"}
    /\ Truthy(API_KEY) /\ sendRes.api_key # API_KEY
    /\ BadInputs(sendRes) /\ ~clientsUp
    /\ sendRes.outcome = "auth_failed"
    /\ RateKey(sendRes.platform, sendRes.chat_id) \notin DOMAIN rate_limit_storage

====
